---- MODULE Spec2Model ----
(***************************************************************************)
(* Model of the lazyqa scripts: the test-case naming scheme of common.py   *)
(* (camel_case, create/parse_test_case_name, increment_id,                 *)
(* find_highest_id, get_next_id) and the output-folder orchestration of    *)
(* lazytp.py, lazyto.py and batchltp.py.                                   *)
(*                                                                         *)
(* A Python str is a sequence of one-character strings.  Python's None is  *)
(* the value None below, a sequence no str can equal.                      *)
(***************************************************************************)
EXTENDS Integers, Sequences, FiniteSets, TLC

VARIABLES call, out_root, pc, job, local, made, runs, files, config

vars == <<call, out_root, pc, job, local, made, runs, files, config>>

-----------------------------------------------------------------------------
(* Characters                                                              *)

LowerChars == <<"a","b","c","d","e","f","g","h","i","j","k","l","m",
                "n","o","p","q","r","s","t","u","v","w","x","y","z">>

UpperChars == <<"A","B","C","D","E","F","G","H","I","J","K","L","M",
                "N","O","P","Q","R","S","T","U","V","W","X","Y","Z">>

DigitChars == <<"0","1","2","3","4","5","6","7","8","9">>

Range(f) == { f[i] : i \in DOMAIN f }

IsInjective(f) == \A i, j \in DOMAIN f : f[i] = f[j] => i = j

IsLower(c) == c \in Range(LowerChars)

IsUpper(c) == c \in Range(UpperChars)

IsDigit(c) == c \in Range(DigitChars)

IsCased(c) == IsLower(c) \/ IsUpper(c)

IsAlnum(c) == IsCased(c) \/ IsDigit(c)

ToUpper(c) == IF IsLower(c) THEN UpperChars[CHOOSE i \in DOMAIN LowerChars : LowerChars[i] = c] ELSE c

ToLower(c) == IF IsUpper(c) THEN LowerChars[CHOOSE i \in DOMAIN UpperChars : UpperChars[i] = c] ELSE c

None == <<"None">>

SEPARATOR == "_"

ID_LEN == 3

SplitChars == {"_", " ", ".", "-"}

-----------------------------------------------------------------------------
(* camel_case                                                              *)

RECURSIVE SplitFrom(_, _, _)
\* re.split("_| |\.|-", s): every single separator character ends a component,
\* so adjacent, leading and trailing separators give empty components.
SplitFrom(s, i, cur) ==
    IF i > Len(s) THEN <<cur>>
    ELSE IF s[i] \in SplitChars THEN <<cur>> \o SplitFrom(s, i + 1, <<>>)
    ELSE SplitFrom(s, i + 1, Append(cur, s[i]))

re_split(s) == SplitFrom(s, 1, <<>>)

RECURSIVE TitleFrom(_, _, _)
\* str.title(): a cased character is upper-cased when the character before it
\* is not cased (or there is none) and lower-cased when it is.
TitleFrom(c, i, prev_cased) ==
    IF i > Len(c) THEN <<>>
    ELSE <<IF prev_cased THEN ToLower(c[i]) ELSE ToUpper(c[i])>>
            \o TitleFrom(c, i + 1, IsCased(c[i]))

capitalize_first_only(c) == IF c = <<>> THEN <<>> ELSE <<ToUpper(c[1])>> \o Tail(c)

title(c) == TitleFrom(c, 1, FALSE)

RECURSIVE JoinTitled(_, _)
JoinTitled(components, i) ==
    IF i > Len(components) THEN <<>>
    ELSE title(components[i]) \o JoinTitled(components, i + 1)

IndexError == <<"IndexError">>

camel_case_strict(s) ==
    LET components == re_split(s)
    IN  IF components[1] = <<>> THEN IndexError
        ELSE components[1] \o JoinTitled(components, 2)

camel_case(s) ==
    LET components == re_split(s)
    IN  components[1] \o JoinTitled(components, 2)

-----------------------------------------------------------------------------
(* Test-case names                                                         *)

RECURSIVE DigitRun(_, _)
\* Length of the longest run of decimal digits that starts at position i of
\* s: what the greedy  \d+  consumes first.
DigitRun(s, i) == IF i <= Len(s) /\ IsDigit(s[i]) THEN 1 + DigitRun(s, i + 1) ELSE 0

RECURSIVE AlnumRun(_, _)
\* The same for  [^\W_]  (a word character other than '_').
AlnumRun(s, i) == IF i <= Len(s) /\ IsAlnum(s[i]) THEN 1 + AlnumRun(s, i + 1) ELSE 0

Slice(s, from, len) == SubSeq(s, from, from + len - 1)

CharAt(s, i) == IF i <= Len(s) THEN s[i] ELSE ""

NoMatch == [matched |-> FALSE]

test_case_name_regex_always_optional(s) ==
    LET a  == DigitRun(s, 1)
        b  == AlnumRun(s, a + 2)
        c  == AlnumRun(s, a + b + 3)
        p  == a + b + c + 3
        d  == AlnumRun(s, p + 1)
    IN  IF a = 0 \/ CharAt(s, a + 1) # SEPARATOR THEN NoMatch
        ELSE IF b = 0 \/ CharAt(s, a + b + 2) # SEPARATOR THEN NoMatch
        ELSE IF c = 0 THEN NoMatch
        ELSE [matched |-> TRUE,
              group1  |-> Slice(s, 1, a),
              group2  |-> Slice(s, a + 2, b),
              group3  |-> Slice(s, a + b + 3, c),
              group4  |-> IF CharAt(s, p) = SEPARATOR THEN Slice(s, p + 1, d) ELSE None]

test_case_name_regex_fullmatch(s) ==
    LET a  == DigitRun(s, 1)
        b  == AlnumRun(s, a + 2)
        c  == AlnumRun(s, a + b + 3)
        p  == a + b + c + 3
        q  == IF CharAt(s, p) = SEPARATOR THEN p + 1 ELSE p
        d  == AlnumRun(s, q)
    IN  IF a = 0 \/ CharAt(s, a + 1) # SEPARATOR THEN NoMatch
        ELSE IF b = 0 \/ CharAt(s, a + b + 2) # SEPARATOR THEN NoMatch
        ELSE IF c = 0 \/ q + d <= Len(s) THEN NoMatch
        ELSE [matched |-> TRUE,
              group1  |-> Slice(s, 1, a),
              group2  |-> Slice(s, a + 2, b),
              group3  |-> Slice(s, a + b + 3, c),
              group4  |-> Slice(s, q, d)]

\* re.match of  (\d+)_([^\W_]+)_([^\W_]+)_?([^\W_]*)  at the start of s.
\* Each class excludes the '_' that must follow it, so a shorter id or sha1 is
\* followed by a character of its own class and cannot match: backtracking
\* never succeeds where the longest runs fail, and the match is the greedy one.
\* Group 4 is not optional: it takes part in every match, empty when nothing
\* alphanumeric follows.  Trailing characters are left unmatched.
test_case_name_regex(s) ==
    LET a  == DigitRun(s, 1)
        b  == AlnumRun(s, a + 2)
        c  == AlnumRun(s, a + b + 3)
        p  == a + b + c + 3
        q  == IF CharAt(s, p) = SEPARATOR THEN p + 1 ELSE p
        d  == AlnumRun(s, q)
    IN  IF a = 0 \/ CharAt(s, a + 1) # SEPARATOR THEN NoMatch
        ELSE IF b = 0 \/ CharAt(s, a + b + 2) # SEPARATOR THEN NoMatch
        ELSE IF c = 0 THEN NoMatch
        ELSE [matched |-> TRUE,
              group1  |-> Slice(s, 1, a),
              group2  |-> Slice(s, a + 2, b),
              group3  |-> Slice(s, a + b + 3, c),
              group4  |-> Slice(s, q, d)]

AttributeError == [raised |-> "AttributeError"]

\* m.group(...) on m = None raises AttributeError.
parse_test_case_name(s) ==
    LET m == test_case_name_regex(s)
    IN  IF ~m.matched THEN AttributeError
        ELSE [raised               |-> "",
              id                   |-> m.group1,
              sha1                 |-> m.group2,
              dataset_name         |-> m.group3,
              optional_description |-> m.group4]

is_test_case_name(s) == test_case_name_regex(s).matched

create_test_case_name_truthy(_id, sha1, project_name, optional_description) ==
    LET result == _id \o <<SEPARATOR>> \o sha1 \o <<SEPARATOR>> \o camel_case(project_name)
    IN  IF optional_description # None /\ optional_description # <<>>
        THEN result \o <<"_">> \o camel_case(optional_description)
        ELSE result

create_test_case_name_raw(_id, sha1, project_name, optional_description) ==
    LET result == _id \o <<SEPARATOR>> \o sha1 \o <<SEPARATOR>> \o project_name
    IN  IF optional_description # None
        THEN result \o <<"_">> \o camel_case(optional_description)
        ELSE result

create_test_case_name(_id, sha1, project_name, optional_description) ==
    LET result == _id \o <<SEPARATOR>> \o sha1 \o <<SEPARATOR>> \o camel_case(project_name)
    IN  IF optional_description # None
        THEN result \o <<"_">> \o camel_case(optional_description)
        ELSE result

stitched_tiff == <<"s","t","i","t","c","h","e","d",".","t","i","f","f">>

RECURSIVE join(_, _)
\* sep.join(components)
join(sep, components) ==
    IF components = <<>> THEN <<>>
    ELSE IF Len(components) = 1 THEN components[1]
    ELSE components[1] \o sep \o join(sep, Tail(components))

\* lazytp.py; the AttributeError of parse_test_case_name passes through
derive_stitched_result_name(test_case_name) ==
    LET parsed     == parse_test_case_name(test_case_name)
        components == <<parsed.id, parsed.dataset_name>>
                        \o (IF parsed.optional_description # None
                            THEN <<parsed.optional_description>> ELSE <<>>)
                        \o <<stitched_tiff>>
    IN  IF parsed.raised # "" THEN [raised |-> parsed.raised, name |-> <<>>]
        ELSE [raised |-> "", name |-> join(<<"_">>, components)]

-----------------------------------------------------------------------------
(* Ids                                                                     *)

DigitVal(c) == (CHOOSE i \in DOMAIN DigitChars : DigitChars[i] = c) - 1

RECURSIVE int(_)
int(s) == IF s = <<>> THEN 0 ELSE 10 * int(SubSeq(s, 1, Len(s) - 1)) + DigitVal(s[Len(s)])

RECURSIVE str(_)
str(n) == IF n < 10 THEN <<DigitChars[n + 1]>> ELSE str(n \div 10) \o <<DigitChars[(n % 10) + 1]>>

RECURSIVE Pow10(_)
Pow10(n) == IF n = 0 THEN 1 ELSE 10 * Pow10(n - 1)

RECURSIVE Zeros(_)
\* '0' * n, the empty string for n <= 0
Zeros(n) == IF n <= 0 THEN <<>> ELSE <<"0">> \o Zeros(n - 1)

increment_id_no_skip(_id) ==
    LET mod     == Pow10(ID_LEN)
        next_id == str((int(_id) + 1) % mod)
    IN  Zeros(ID_LEN - Len(next_id)) \o next_id

increment_id(_id) ==
    LET mod     == Pow10(ID_LEN)
        n       == str((int(_id) + 1) % mod)
        next_id == IF n = <<"0">> THEN <<"1">> ELSE n
    IN  Zeros(ID_LEN - Len(next_id)) \o next_id

RECURSIVE StrLess(_, _)
\* a < b for Python strings of digits: by the first differing character, a
\* proper prefix being the smaller.
StrLess(a, b) ==
    IF b = <<>> THEN FALSE
    ELSE IF a = <<>> THEN TRUE
    ELSE IF a[1] # b[1] THEN DigitVal(a[1]) < DigitVal(b[1])
    ELSE StrLess(Tail(a), Tail(b))

\* max() of a non-empty set of strings
max(ids) == CHOOSE m \in ids : \A x \in ids : x = m \/ StrLess(x, m)

\* folder is the set of names that folder.glob("*") lists
find_highest_id(folder) ==
    LET project_names == { n \in folder : is_test_case_name(n) }
        ids           == { parse_test_case_name(n).id : n \in project_names }
        zero_id       == Zeros(ID_LEN)
    IN  IF ids = {} THEN zero_id ELSE max(ids)

get_next_id(folder) == increment_id(find_highest_id(folder))

-----------------------------------------------------------------------------
(* Inputs of the naming functions                                          *)

MaxLen == 3

MaxNameLen == 2

MaxDescLen == 1

MaxIdDigits == 3

MaxEntries == 2

MaxIncDigits == 4

\* a lower-case and an upper-case letter, a digit, the four characters
\* camel_case splits on, and one character that is neither
Alphabet == {"a", "B", "4", "_", " ", ".", "-", "!"}

Strings(n) == UNION { [1..k -> Alphabet] : k \in 0..n }

\* the inputs of the repository's tests, and one with a later component in
\* mixed case
one_two_three ==
    <<"o","n","e","_","t","w","o",".","t","h","r","e","e","_","f","o","u","r"," ","f","i","v","e"," ","s","i","x","-","s","e","v","e","n",".","h","e","i","g","h","t","-","n","i","n","e">>

x_myWord == <<"x","_","m","y","W","o","r","d">>

snowy_Hillside == <<"s","n","o","w","y","_","H","i","l","l","s","i","d","e">>

increasedStepSizeTo42 ==
    <<"i","n","c","r","e","a","s","e","d","S","t","e","p","S","i","z","e","T","o","4","2">>

\* the folder name of test_stitched_result_name_contains_id_and_description
snowyHillside_increasedStepSizeTo42 ==
    <<"0","1","5","_","1","2","3","4","5","6","7","8","9","0","_","s","n","o","w","y","H","i","l","l","s","i","d","e","_","i","n","c","r","e","a","s","e","d","S","t","e","p","S","i","z","e","T","o","4","2">>

ExampleStrings == { one_two_three, x_myWord, snowy_Hillside, increasedStepSizeTo42 }

Ids == { <<"0","0","1">>, <<"4","2">> }

Shas == { <<"1","f">>, <<"1","2","3","4","5","6","7","8","9","0">> }

ProjectNames == Strings(MaxNameLen) \cup { snowy_Hillside }

OptionalDescriptions == {None} \cup Strings(MaxDescLen) \cup { increasedStepSizeTo42 }

FolderIds == UNION { [1..k -> {"0", "9"}] : k \in 1..MaxIdDigits }

\* the ids increment_id is given: every string of decimal digits
DigitStrings == UNION { [1..k -> Range(DigitChars)] : k \in 1..MaxIncDigits }

\* what an output root may hold: test cases with any id, and other entries
FolderNames ==
    { create_test_case_name(i, <<"1","f">>, <<"a">>, None) : i \in FolderIds }
        \cup { <<"n","o","t","e","s">>, <<"0","0","1","_","1","f">> }

\* the output root of the tests' fixture out_dir_with_qa_test_cases
ExampleFolder ==
    { <<"0","0","1","_","1","2","3","4","_","p","r","o","j","e","c","t","1","_","u","s","e","r","D","e","s","c","r","i","p","t","i","o","n">>,
      <<"0","0","3","_","1","2","3","4","_","p","r","o","j","e","c","t","1","_","u","s","e","r","D","e","s","c","r","i","p","t","i","o","n">> }

Folders ==
    UNION { { Range(f) : f \in [1..k -> FolderNames] } : k \in 0..MaxEntries }
        \cup { ExampleFolder }

\* the part of the state the orchestration uses; the naming functions leave it alone
NoRuns ==
    /\ out_root = {}
    /\ pc = <<>>
    /\ job = <<>>
    /\ local = <<>>
    /\ made = <<>>
    /\ runs = 0
    /\ files = {}
    /\ config = None

orchestration == <<out_root, pc, job, local, made, runs, files, config>>

NoCall == [op |-> "none"]

-----------------------------------------------------------------------------
(* SpecCamelCase: camel_case applied to every string of the bounds         *)

\* call holds the arguments of a call that is about to be made (op = "args",
\* fn the function) and then the call with its result (op the function).
CamelCaseArgs == { [op |-> "args", fn |-> "camel_case", s |-> s] :
                     s \in Strings(MaxLen) \cup ExampleStrings }

CallCamelCase ==
    /\ call.op = "args" /\ call.fn = "camel_case"
    /\ call' = [op |-> "camel_case", s |-> call.s, result |-> camel_case(call.s)]
    /\ UNCHANGED orchestration

InitCamelCase == call \in CamelCaseArgs /\ NoRuns

NextCamelCase == CallCamelCase

SpecCamelCase == InitCamelCase /\ [][NextCamelCase]_vars

-----------------------------------------------------------------------------
(* SpecNames: names are created, and created and other names are parsed    *)

CreateArgs == { [op |-> "args", fn |-> "create_test_case_name", id |-> i, sha1 |-> sha1,
                 project_name |-> n, optional_description |-> d] :
                  i \in Ids, sha1 \in Shas, n \in ProjectNames, d \in OptionalDescriptions }

\* a test-case name followed by anything, and anything
ParseInputs ==
    { <<"0","1","5","_","1","f","_","a","B">> \o s : s \in Strings(MaxLen) }
        \cup Strings(MaxLen)

ParseArgs == { [op |-> "args", fn |-> "parse_test_case_name", name |-> s] : s \in ParseInputs }

CallCreateTestCaseName ==
    /\ call.op = "args" /\ call.fn = "create_test_case_name"
    /\ call' = [op                   |-> "create_test_case_name",
                id                   |-> call.id,
                sha1                 |-> call.sha1,
                project_name         |-> call.project_name,
                optional_description |-> call.optional_description,
                result               |-> create_test_case_name(call.id, call.sha1,
                                             call.project_name, call.optional_description)]
    /\ UNCHANGED orchestration

\* parse_test_case_name(create_test_case_name(...))
CallParseCreated ==
    /\ call.op = "create_test_case_name"
    /\ call' = [op      |-> "parse_created",
                created |-> call,
                name    |-> call.result,
                result  |-> parse_test_case_name(call.result)]
    /\ UNCHANGED orchestration

CallParseTestCaseName ==
    /\ call.op = "args" /\ call.fn = "parse_test_case_name"
    /\ call' = [op     |-> "parse_test_case_name",
                name   |-> call.name,
                result |-> parse_test_case_name(call.name)]
    /\ UNCHANGED orchestration

\* the folder names rename_stitched_tiff may meet
DeriveArgs ==
    { [op |-> "args", fn |-> "derive_stitched_result_name", name |-> s] :
        s \in ParseInputs \cup { snowyHillside_increasedStepSizeTo42 } }

CallDeriveStitchedResultName ==
    /\ call.op = "args" /\ call.fn = "derive_stitched_result_name"
    /\ call' = [op     |-> "derive_stitched_result_name",
                name   |-> call.name,
                result |-> derive_stitched_result_name(call.name)]
    /\ UNCHANGED orchestration

InitNames == call \in CreateArgs \cup ParseArgs \cup DeriveArgs /\ NoRuns

NextNames ==
    \/ CallCreateTestCaseName
    \/ CallParseCreated
    \/ CallParseTestCaseName
    \/ CallDeriveStitchedResultName

SpecNames == InitNames /\ [][NextNames]_vars

-----------------------------------------------------------------------------
(* SpecIds: get_next_id applied to every folder of the bounds, and          *)
(* increment_id to every id                                                *)

\* the directories the functions are called on: one that exists, with its
\* entries, and one that does not exist
GetNextIdArgs ==
    { [op |-> "args", fn |-> "get_next_id", folder |-> f, exists |-> TRUE] : f \in Folders }
        \cup { [op |-> "args", fn |-> "get_next_id", folder |-> {}, exists |-> FALSE] }

\* folder.glob("*"): the names of the entries; pathlib's glob yields nothing,
\* and raises nothing, for a path that does not exist
glob(folder, exists) == IF exists THEN folder ELSE {}

CallGetNextId ==
    /\ call.op = "args" /\ call.fn = "get_next_id"
    /\ call' = [op      |-> "get_next_id",
                folder  |-> call.folder,
                exists  |-> call.exists,
                raised  |-> "",
                highest |-> find_highest_id(glob(call.folder, call.exists)),
                result  |-> get_next_id(glob(call.folder, call.exists))]
    /\ UNCHANGED orchestration

IncrementIdArgs == { [op |-> "args", fn |-> "increment_id", id |-> i] : i \in DigitStrings }

CallIncrementId ==
    /\ call.op = "args" /\ call.fn = "increment_id"
    /\ call' = [op |-> "increment_id", id |-> call.id, result |-> increment_id(call.id)]
    /\ UNCHANGED orchestration

InitIds == call \in GetNextIdArgs \cup IncrementIdArgs /\ NoRuns

NextIds ==
    \/ CallGetNextId
    \/ CallIncrementId

SpecIds == InitIds /\ [][NextIds]_vars

-----------------------------------------------------------------------------
(* Images folders: batchltp.py                                             *)

\* A directory entry is a record: its name, the suffix of the name (what
\* follows its last '.', "" when it has none), whether it is a directory, and
\* the entries it holds in the order iterdir() lists them.
File(name, suffix) == [name |-> name, suffix |-> suffix, is_dir |-> FALSE, children |-> <<>>]

Dir(name, children) == [name |-> name, suffix |-> "", is_dir |-> TRUE, children |-> children]

image_extensions == <<"tif", "TIF", "tiff", "TIFF", "jpg", "JPG", "jpeg", "JPEG">>

\* folder.glob('*.<extension>') lists the entries of folder, of any kind, whose
\* name ends in '.<extension>', in the case given.
contains_images(folder) ==
    \E i \in DOMAIN folder.children : folder.children[i].suffix \in Range(image_extensions)

CannotGuessInputImagesFolderException(folder, candidates) ==
    [raised  |-> "CannotGuessInputImagesFolderException",
     message |-> [folder |-> folder.name, count |-> Len(candidates), names |-> candidates]]

Returned(path) == [raised |-> "", result |-> path]

RECURSIVE GuessFromContentOnly(_, _, _)
GuessFromContentOnly(folder, i, candidates) ==
    IF i > Len(folder.children)
    THEN IF Len(candidates) = 1 THEN Returned(<<folder.name, candidates[1]>>)
         ELSE CannotGuessInputImagesFolderException(folder, candidates)
    ELSE LET subfolder == folder.children[i]
         IN  IF subfolder.is_dir /\ contains_images(subfolder)
             THEN GuessFromContentOnly(folder, i + 1, Append(candidates, subfolder.name))
             ELSE GuessFromContentOnly(folder, i + 1, candidates)

RECURSIVE GuessFromFirstCandidate(_, _)
GuessFromFirstCandidate(folder, i) ==
    IF i > Len(folder.children)
    THEN CannotGuessInputImagesFolderException(folder, <<>>)
    ELSE LET subfolder == folder.children[i]
         IN  IF subfolder.is_dir /\ (subfolder.name = "images" \/ contains_images(subfolder))
             THEN Returned(<<folder.name, subfolder.name>>)
             ELSE GuessFromFirstCandidate(folder, i + 1)

RECURSIVE GuessFrom(_, _, _)
\* the loop over folder.iterdir() from its i-th entry on, and what follows it
GuessFrom(folder, i, candidates) ==
    IF i > Len(folder.children)
    THEN IF Len(candidates) = 1 THEN Returned(<<folder.name, candidates[1]>>)
         ELSE CannotGuessInputImagesFolderException(folder, candidates)
    ELSE LET subfolder == folder.children[i]
         IN  IF subfolder.is_dir
             THEN IF subfolder.name = "images"
                  THEN Returned(<<folder.name, subfolder.name>>)
                  ELSE IF contains_images(subfolder)
                  THEN GuessFrom(folder, i + 1, Append(candidates, subfolder.name))
                  ELSE GuessFrom(folder, i + 1, candidates)
             ELSE GuessFrom(folder, i + 1, candidates)

guess_images_subfolder_content_only(folder) == GuessFromContentOnly(folder, 1, <<>>)

guess_images_subfolder_first_candidate(folder) == GuessFromFirstCandidate(folder, 1)

\* a path below folder is the pair of folder's name and the sub-folder's
guess_images_subfolder(folder) == GuessFrom(folder, 1, <<>>)

RECURSIVE GatherFrom(_, _, _, _)
GatherFrom(projects_root, i, images_paths, ambiguous_qa_projects) ==
    IF i > Len(projects_root.children)
    THEN [images_paths |-> images_paths, ambiguous_qa_projects |-> ambiguous_qa_projects]
    ELSE LET c == projects_root.children[i]
             g == guess_images_subfolder(c)
         IN  IF ~c.is_dir
             THEN GatherFrom(projects_root, i + 1, images_paths, ambiguous_qa_projects)
             ELSE IF g.raised = ""
             THEN GatherFrom(projects_root, i + 1, Append(images_paths, g.result),
                             ambiguous_qa_projects)
             ELSE GatherFrom(projects_root, i + 1, images_paths,
                             Append(ambiguous_qa_projects, c.name))

gather_input_paths_from_qa_projects_root(projects_root) ==
    GatherFrom(projects_root, 1, <<>>, <<>>)

MaxSubfolders == 3

MaxProjects == 2

\* insert_dummy_images of the tests
DummyImages == <<File("img_01.TIF", "TIF"), File("img_02.TIF", "TIF")>>

\* what a sub-folder may hold: nothing, the tests' images, no image (a text
\* file, an extension in another case, a name without '.'), an image among
\* other files
Contents ==
    { <<>>,
      DummyImages,
      <<File("notes.txt", "txt"), File("img.Tif", "Tif"), File("jpg", "")>>,
      <<File("notes.txt", "txt"), File("scan.jpeg", "jpeg")>> }

SubfolderNames == {"images", "the_input", "no_input", "Images"}

Subfolders(name) == { File(name, "") } \cup { Dir(name, c) : c \in Contents }

\* the listings of a directory that holds at most n of the entries, no two
\* of the same name, in every order
Listings(entries, n) ==
    UNION { { l \in [1..k -> entries] : \A i, j \in 1..k : l[i].name = l[j].name => i = j } :
            k \in 0..n }

QaProjects == { Dir("snowy_hillside", l) : l \in Listings(UNION { Subfolders(n) : n \in SubfolderNames }, MaxSubfolders) }

\* the QA projects a projects root holds: those of the tests (a folder
\* 'images' with images; two sub-folders with images), an empty one, one with
\* a single sub-folder with images, one whose empty 'images' stands behind a
\* sub-folder with images
ProjectListings ==
    { <<Dir("images", DummyImages)>>,
      <<Dir("inputs_1", DummyImages), Dir("inputs_2", DummyImages)>>,
      <<>>,
      <<Dir("the_input", DummyImages), Dir("no_input", <<>>)>>,
      <<Dir("the_input", DummyImages), Dir("images", <<>>)>> }

ProjectNamesInRoot == {"luscious_greens", "rolling_mountain", "faulty"}

RootEntries(name) == { File(name, "") } \cup { Dir(name, l) : l \in ProjectListings }

ProjectsRoots ==
    { Dir("projects", l) : l \in Listings(UNION { RootEntries(n) : n \in ProjectNamesInRoot }, MaxProjects) }

GuessArgs == { [op |-> "args", fn |-> "guess_images_subfolder", folder |-> f] : f \in QaProjects }

GatherArgs ==
    { [op |-> "args", fn |-> "gather_input_paths_from_qa_projects_root", projects_root |-> r] :
        r \in ProjectsRoots }

CallGuessImagesSubfolder ==
    /\ call.op = "args" /\ call.fn = "guess_images_subfolder"
    /\ call' = [op     |-> "guess_images_subfolder",
                folder |-> call.folder,
                result |-> guess_images_subfolder(call.folder)]
    /\ UNCHANGED orchestration

CallGatherInputPaths ==
    /\ call.op = "args" /\ call.fn = "gather_input_paths_from_qa_projects_root"
    /\ call' = [op            |-> "gather_input_paths_from_qa_projects_root",
                projects_root |-> call.projects_root,
                result        |-> gather_input_paths_from_qa_projects_root(call.projects_root)]
    /\ UNCHANGED orchestration

InitImages == call \in GuessArgs \cup GatherArgs /\ NoRuns

NextImages ==
    \/ CallGuessImagesSubfolder
    \/ CallGatherInputPaths

SpecImages == InitImages /\ [][NextImages]_vars

-----------------------------------------------------------------------------
(* Output folders: lazytp.py, lazyto.py, batchltp.py                       *)

MaxInitEntries == 2

MaxRuns == 2

\* the terminals the scripts are started from
Procs == {"A", "B"}

\* repo.get_sha_of_branch('HEAD', short=True)
HeadShas == { <<"1","f">> }

\* images_path.parent.name of a QA project
ProjectFolders == { <<"a">>, <<"b","_","c">> }

ortho == <<"o","r","t","h","o">>

RunDescriptions == { None, <<"x">> }

\* what the output root may hold before the first run
InitEntries ==
    { <<"0","0","1","_","1","f","_","a">>,
      <<"9","9","9","_","1","f","_","o","r","t","h","o">>,
      <<"n","o","t","e","s">> }

InitOutRoots ==
    UNION { { Range(f) : f \in [1..k -> InitEntries] } : k \in 0..MaxInitEntries }

get_lazytp_test_case_name(sha1, out_path, images_parent, optional_description, reuse_id) ==
    LET _id          == IF reuse_id THEN find_highest_id(out_path) ELSE get_next_id(out_path)
        project_name == camel_case(images_parent)
    IN  [_id  |-> _id,
         name |-> create_test_case_name(_id, sha1, project_name, optional_description)]

create_lazyto_out_folder_name_raw(sha1, out_path, description, optional_description, reuse_id) ==
    LET _id == IF reuse_id THEN find_highest_id(out_path) ELSE get_next_id(out_path)
        components == _id \o <<SEPARATOR>> \o sha1 \o <<SEPARATOR>> \o description
    IN  [_id  |-> _id,
         name |-> IF optional_description # None
                  THEN components \o <<SEPARATOR>> \o optional_description
                  ELSE components]

create_lazyto_out_folder_name(sha1, out_path, description, optional_description, reuse_id) ==
    LET _id == IF reuse_id THEN find_highest_id(out_path) ELSE get_next_id(out_path)
        components == _id \o <<SEPARATOR>> \o sha1 \o <<SEPARATOR>> \o description
    IN  [_id  |-> _id,
         name |-> IF optional_description # None
                  THEN components \o <<SEPARATOR>> \o camel_case(optional_description)
                  ELSE components]

\* lazyto.py; the AttributeError of parse_test_case_name passes through
parse_lazyto_out_folder_name(name) ==
    LET parsed == parse_test_case_name(name)
    IN  IF parsed.raised # "" THEN parsed
        ELSE [raised               |-> "",
              id                   |-> parsed.id,
              sha1                 |-> parsed.sha1,
              optional_description |-> parsed.optional_description,
              description          |-> parsed.dataset_name]

\* the output root and the optional description of test_lazyto.py
ortho_out_path == { <<"0","0","1","_","1","2","3","4","5","6","_","o","r","t","h","o">> }

this_is_optional == <<"t","h","i","s"," ","i","s"," ","o","p","t","i","o","n","a","l">>

\* the descriptions lazyto.py may be given with -p (taken as they are), and
\* the optional ones with -d
LazytoDescriptions == (Strings(MaxNameLen) \ {<<>>}) \cup { ortho }

LazytoOptionalDescriptions == {None} \cup Strings(MaxDescLen) \cup { this_is_optional }

\* SpecFolderNames: the two functions that name an output folder, applied to
\* every output root of the bounds with either value of reuse_id
LazytpNameArgs ==
    { [op |-> "args", fn |-> "get_lazytp_test_case_name", sha1 |-> s, out_path |-> f,
       images_parent |-> n, optional_description |-> d, reuse_id |-> r] :
        s \in HeadShas, f \in Folders, n \in ProjectFolders, d \in RunDescriptions,
        r \in BOOLEAN }

LazytoNameArgs ==
    { [op |-> "args", fn |-> "create_lazyto_out_folder_name", sha1 |-> s, out_path |-> f,
       description |-> ortho, optional_description |-> d, reuse_id |-> r] :
        s \in HeadShas, f \in Folders, d \in RunDescriptions, r \in BOOLEAN }
    \cup
    { [op |-> "args", fn |-> "create_lazyto_out_folder_name", sha1 |-> s, out_path |-> f,
       description |-> n, optional_description |-> d, reuse_id |-> FALSE] :
        s \in HeadShas, f \in {{}, ortho_out_path}, n \in LazytoDescriptions,
        d \in LazytoOptionalDescriptions }

CallGetLazytpTestCaseName ==
    /\ call.op = "args" /\ call.fn = "get_lazytp_test_case_name"
    /\ call' = [op       |-> "get_lazytp_test_case_name",
                out_path |-> call.out_path,
                reuse_id |-> call.reuse_id,
                result   |-> get_lazytp_test_case_name(call.sha1, call.out_path,
                                 call.images_parent, call.optional_description,
                                 call.reuse_id).name]
    /\ UNCHANGED orchestration

CallCreateLazytoOutFolderName ==
    /\ call.op = "args" /\ call.fn = "create_lazyto_out_folder_name"
    /\ call' = [op                   |-> "create_lazyto_out_folder_name",
                sha1                 |-> call.sha1,
                out_path             |-> call.out_path,
                description          |-> call.description,
                optional_description |-> call.optional_description,
                reuse_id             |-> call.reuse_id,
                result               |-> create_lazyto_out_folder_name(call.sha1,
                                             call.out_path, call.description,
                                             call.optional_description, call.reuse_id).name]
    /\ UNCHANGED orchestration

\* parse_lazyto_out_folder_name(create_lazyto_out_folder_name(...))
CallParseLazytoCreated ==
    /\ call.op = "create_lazyto_out_folder_name"
    /\ call' = [op      |-> "parse_lazyto_created",
                created |-> call,
                name    |-> call.result,
                result  |-> parse_lazyto_out_folder_name(call.result)]
    /\ UNCHANGED orchestration

InitFolderNames == call \in LazytpNameArgs \cup LazytoNameArgs /\ NoRuns

NextFolderNames ==
    \/ CallGetLazytpTestCaseName
    \/ CallCreateLazytoOutFolderName
    \/ CallParseLazytoCreated

SpecFolderNames == InitFolderNames /\ [][NextFolderNames]_vars

\* A config file is the sequence of its lines: a section header, a key with
\* its value (a sequence of strings), or a blank line.
Header(section) == [kind |-> "section", key |-> section, value |-> <<>>]

Item(key, value) == [kind |-> "item", key |-> key, value |-> value]

Blank == [kind |-> "blank", key |-> "", value |-> <<>>]

\* the config the scripts are given; None when the file does not exist
ConfigContent == <<Header("dsm"), Item("gsd", <<"5">>)>>

RECURSIVE join_names(_)
\* ','.join(image_path.name for image_path in images_path.glob('*'))
join_names(entries) ==
    IF entries = <<>> THEN <<>>
    ELSE IF Len(entries) = 1 THEN <<entries[1].name>>
    ELSE <<entries[1].name, ",">> \o join_names(Tail(entries))

\* lazytp.py; images_path is <parent>/images and holds the tests' images
create_input_block_for_config(images_parent, images) ==
    <<Header("metric"),
      Item("path", images_parent \o <<"/", "images">>),
      Item("inputs", join_names(images))>>

\* an option of a section: its key and its value
Option(key, value) == [key |-> key, value |-> value]

has_option(items, key) == \E i \in DOMAIN items : items[i].key = key

set_option(items, key, value) ==
    IF has_option(items, key)
    THEN [ i \in DOMAIN items |->
             IF items[i].key = key THEN Option(key, value) ELSE items[i] ]
    ELSE Append(items, Option(key, value))

\* configparser.ConfigParser(): no section read yet, strict
ConfigParser == [raised |-> "", sections |-> <<>>, defaults |-> <<>>, cursect |-> ""]

RECURSIVE ParseFrom(_, _, _)
\* parser.read_string(config): the sections in their order, each with its
\* keys in their order; keys keep their case (optionxform = str).  The keys
\* of [DEFAULT] are kept apart; a key before any header, a section read twice
\* and a key read twice in one section raise.
ParseFrom(lines, i, parser) ==
    IF i > Len(lines) \/ parser.raised # "" THEN parser
    ELSE LET l    == lines[i]
             cur  == parser.cursect
             sect == CHOOSE n \in DOMAIN parser.sections : parser.sections[n].name = cur
         IN  IF l.kind = "section"
             THEN IF l.key = "DEFAULT"
                  THEN ParseFrom(lines, i + 1, [parser EXCEPT !.cursect = "DEFAULT"])
                  ELSE IF \E n \in DOMAIN parser.sections : parser.sections[n].name = l.key
                  THEN [parser EXCEPT !.raised = "DuplicateSectionError"]
                  ELSE ParseFrom(lines, i + 1,
                           [parser EXCEPT !.sections = Append(@, [name |-> l.key, items |-> <<>>]),
                                          !.cursect = l.key])
             ELSE IF l.kind = "item"
             THEN IF cur = ""
                  THEN [parser EXCEPT !.raised = "MissingSectionHeaderError"]
                  ELSE IF cur = "DEFAULT"
                  THEN IF has_option(parser.defaults, l.key)
                       THEN [parser EXCEPT !.raised = "DuplicateOptionError"]
                       ELSE ParseFrom(lines, i + 1,
                                [parser EXCEPT !.defaults = Append(@, Option(l.key, l.value))])
                  ELSE IF has_option(parser.sections[sect].items, l.key)
                       THEN [parser EXCEPT !.raised = "DuplicateOptionError"]
                       ELSE ParseFrom(lines, i + 1,
                                [parser EXCEPT !.sections[sect].items =
                                                   Append(@, Option(l.key, l.value))])
             ELSE ParseFrom(lines, i + 1, parser)

\* common.py
parse_config(lines) == ParseFrom(lines, 1, ConfigParser)

\* lazyto.py; the values set are paths, which hold no '%'
add_to_config(parser, section, key, value) ==
    LET sections == IF \E i \in DOMAIN parser.sections : parser.sections[i].name = section
                    THEN parser.sections
                    ELSE Append(parser.sections, [name |-> section, items |-> <<>>])
    IN  [parser EXCEPT !.sections =
            [ i \in DOMAIN sections |->
                IF sections[i].name = section
                THEN [sections[i] EXCEPT !.items = set_option(@, key, value)]
                ELSE sections[i] ]]

\* the pieces of a value that name another key, with the key named
Reference == [ piece \in {"%(gsd)s"} |-> "gsd" ]

\* parser.options(section): the section's own keys, then those of [DEFAULT]
options(parser, i) ==
    parser.sections[i].items
        \o SelectSeq(parser.defaults,
                     LAMBDA d : ~ has_option(parser.sections[i].items, d.key))

RECURSIVE interpolate_some(_, _, _)
\* BasicInterpolation of configparser, piece by piece from the i-th: '%%' is
\* '%', '%(key)s' is the value of the key in the section or in [DEFAULT],
\* any other '%' is a syntax error.  The values named hold no '%' themselves.
interpolate_some(value, i, map) ==
    IF i > Len(value) THEN [raised |-> "", value |-> <<>>]
    ELSE LET piece == value[i]
             rest  == interpolate_some(value, i + 1, map)
             named == CHOOSE n \in DOMAIN map : map[n].key = Reference[piece]
         IN  IF piece = "%" THEN [raised |-> "InterpolationSyntaxError", value |-> <<>>]
             ELSE IF piece \in DOMAIN Reference /\ ~ has_option(map, Reference[piece])
             THEN [raised |-> "InterpolationMissingOptionError", value |-> <<>>]
             ELSE IF rest.raised # "" THEN rest
             ELSE IF piece = "%%" THEN [rest EXCEPT !.value = <<"%">> \o @]
             ELSE IF piece \in DOMAIN Reference
             THEN [rest EXCEPT !.value = map[named].value \o @]
             ELSE [rest EXCEPT !.value = <<piece>> \o @]

RECURSIVE ItemLinesFrom(_, _)
\* 'k = v' for each of the options from the k-th, v as parser[section][k]
\* gives it
ItemLinesFrom(map, k) ==
    IF k > Len(map) THEN [raised |-> "", content |-> <<>>]
    ELSE LET v    == interpolate_some(map[k].value, 1, map)
             rest == ItemLinesFrom(map, k + 1)
         IN  IF v.raised # "" THEN [raised |-> v.raised, content |-> <<>>]
             ELSE IF rest.raised # "" THEN rest
             ELSE [rest EXCEPT !.content = <<Item(map[k].key, v.value)>> \o @]

RECURSIVE LinesFrom(_, _)
\* '[section]', 'k = v' for each key, and a blank line, for each section
LinesFrom(parser, i) ==
    IF i > Len(parser.sections) THEN [raised |-> "", content |-> <<>>]
    ELSE LET items == ItemLinesFrom(options(parser, i), 1)
             rest  == LinesFrom(parser, i + 1)
         IN  IF items.raised # "" THEN items
             ELSE IF rest.raised # "" THEN rest
             ELSE [rest EXCEPT !.content =
                      <<Header(parser.sections[i].name)>> \o items.content \o <<Blank>> \o @]

\* lazyto.py; paths are relative to the output root
enrich_config(lines, out_path, debug_output_path, test_pipeline_project_path) ==
    LET parser     == parse_config(lines)
        ortho_path == out_path \o <<"/">> \o out_path \o <<".tif">>
        p1 == add_to_config(parser, "output", "filename", ortho_path)
        p2 == IF debug_output_path # None
              THEN add_to_config(p1, "color_balance", "debug_tiles_path", debug_output_path)
              ELSE p1
        p3 == IF test_pipeline_project_path # None
              THEN add_to_config(
                       add_to_config(p2, "images", "opfProject",
                           test_pipeline_project_path \o <<"/opf/project.json">>),
                       "dsm", "input_file", test_pipeline_project_path \o <<"/dsm.tiff">>)
              ELSE p2
        all == LinesFrom(p3, 1)
    IN  IF parser.raised # "" THEN [raised |-> parser.raised, content |-> <<>>]
        ELSE IF all.raised # "" THEN all
        ELSE [all EXCEPT !.content = SubSeq(@, 1, Len(@) - 1)]

\* Configs of at most MaxConfigLines lines, for enrich_config.
MaxConfigLines == 3

ConfigLines ==
    { Header("dsm"), Header("output"), Header("DEFAULT"),
      Item("gsd", <<"5">>),
      Item("scale", <<"50", "%">>),
      Item("tiles", <<"%(gsd)s", "/tiles">>),
      Item("filename", <<"old.tif">>),
      Item("input_file", <<"old.tiff">>) }

Configs == UNION { [1..n -> ConfigLines] : n \in 0..MaxConfigLines }

debug_tiles == <<"debug">>

test_pipeline_project == <<"001_123456_project">>

EnrichArgs ==
    { [op |-> "args", fn |-> "enrich_config", config |-> c,
       out_path |-> <<"001_123456_ortho">>, debug_output_path |-> d,
       test_pipeline_project_path |-> t] :
        c \in Configs, d \in {None, debug_tiles}, t \in {None, test_pipeline_project} }

InitConfig == call \in EnrichArgs /\ NoRuns

CallEnrichConfig ==
    /\ call.op = "args"
    /\ call.fn = "enrich_config"
    /\ call' = [op |-> "enrich_config", config |-> call.config,
                out_path |-> call.out_path,
                debug_output_path |-> call.debug_output_path,
                test_pipeline_project_path |-> call.test_pipeline_project_path,
                result |-> enrich_config(call.config, call.out_path,
                               call.debug_output_path, call.test_pipeline_project_path)]
    /\ UNCHANGED <<out_root, pc, job, local, made, runs, files, config>>

NextConfig == CallEnrichConfig

SpecConfig == InitConfig /\ [][NextConfig]_vars

\* a file of the output root: the folder it is in, its name, its lines
OutFile(folder, name, content) == [folder |-> folder, name |-> name, content |-> content]

\* lazytp.py's enriched_config_name, its create_enriched_config (the copy,
\* then '\n' and the input block appended) and the log of test_pipeline
LazytpFiles(out_path, lines, images_parent) ==
    { OutFile(out_path, "pipeline.ini",
          lines \o <<Blank>> \o create_input_block_for_config(images_parent, DummyImages)),
      OutFile(out_path, "log.txt", <<>>) }

\* lazyto.py's enriched_config_name, its create_enriched_config and the log
\* of test_ortho; lazy_test_ortho's defaults: no debug output, no
\* test-pipeline project
LazytoFiles(out_path, lines) ==
    { OutFile(out_path, "ortho.ini", enrich_config(lines, out_path, None, None).content),
      OutFile(out_path, "log.txt", <<>>) }

\* The argument bundles of one invocation: one for lazytp.py and lazyto.py,
\* one per QA project for batchltp.py, all with the description of the
\* command line.
Bundle(sha1, subject, optional_description) ==
    [sha1 |-> sha1, subject |-> subject, optional_description |-> optional_description]

\* the images folders gather_batchltp_arguments finds, in the order of the
\* directory listing; none when no project has one
BatchProjects ==
    UNION { { f \in [1..k -> ProjectFolders] : IsInjective(f) } :
              k \in 0..Cardinality(ProjectFolders) }

Jobs ==
    { [script |-> "lazytp", ltp_arguments |-> <<Bundle(s, n, d)>>] :
        s \in HeadShas, n \in ProjectFolders, d \in RunDescriptions }
    \cup
    { [script |-> "lazyto", ltp_arguments |-> <<Bundle(s, ortho, d)>>] :
        s \in HeadShas, d \in RunDescriptions }
    \cup
    { [script |-> "batchltp",
       ltp_arguments |-> [ i \in DOMAIN f |-> Bundle(s, f[i], d) ]] :
        s \in HeadShas, f \in BatchProjects, d \in RunDescriptions }

NoJob == [script |-> "", ltp_arguments |-> <<>>]

NoLocal == [k |-> 0, listing |-> {}, _id |-> <<>>, name |-> <<>>, raised |-> ""]

reuse_id_never(p) == FALSE

\* batch_ltp passes reuse_id = True for every bundle but the first;
\* lazytp.py's and lazyto.py's main leave it at its default False
reuse_id(p) == local[p].k > 1

\* A script is started from terminal p.  batch_ltp takes ltp_arguments[0]
\* first, which raises IndexError on an empty list.
Start(p, j) ==
    /\ pc[p] \in {"idle", "done", "failed"}
    /\ runs + Len(j.ltp_arguments) <= MaxRuns
    /\ runs' = runs + Len(j.ltp_arguments)
    /\ job' = [job EXCEPT ![p] = j]
    /\ made' = [made EXCEPT ![p] = <<>>]
    /\ IF j.ltp_arguments = <<>>
       THEN /\ local' = [local EXCEPT ![p] = [NoLocal EXCEPT !.raised = "IndexError"]]
            /\ pc' = [pc EXCEPT ![p] = "failed"]
       ELSE /\ local' = [local EXCEPT ![p] = [NoLocal EXCEPT !.k = 1]]
            /\ pc' = [pc EXCEPT ![p] = "name"]
    /\ UNCHANGED <<call, out_root, files, config>>

ComputeNameReserving(p) ==
    LET args    == job[p].ltp_arguments[local[p].k]
        held    == { local[q].name : q \in { r \in Procs \ {p} : pc[r] = "mkdir" } }
        listing == out_root \cup held
        got     == IF job[p].script = "lazyto"
                   THEN create_lazyto_out_folder_name(args.sha1, listing, args.subject,
                            args.optional_description, reuse_id(p))
                   ELSE get_lazytp_test_case_name(args.sha1, listing, args.subject,
                            args.optional_description, reuse_id(p))
    IN  /\ pc[p] = "name"
        /\ local' = [local EXCEPT ![p] = [k |-> local[p].k, listing |-> out_root,
                                          _id |-> got._id, name |-> got.name,
                                          raised |-> ""]]
        /\ pc' = [pc EXCEPT ![p] = "mkdir"]
        /\ UNCHANGED <<call, out_root, job, made, runs, files, config>>

\* The output folder's name is computed from a listing of the output root.
ComputeName(p) ==
    LET args == job[p].ltp_arguments[local[p].k]
        got  == IF job[p].script = "lazyto"
                THEN create_lazyto_out_folder_name(args.sha1, out_root, args.subject,
                         args.optional_description, reuse_id(p))
                ELSE get_lazytp_test_case_name(args.sha1, out_root, args.subject,
                         args.optional_description, reuse_id(p))
    IN  /\ pc[p] = "name"
        /\ local' = [local EXCEPT ![p] = [k |-> local[p].k, listing |-> out_root,
                                          _id |-> got._id, name |-> got.name,
                                          raised |-> ""]]
        /\ pc' = [pc EXCEPT ![p] = "mkdir"]
        /\ UNCHANGED <<call, out_root, job, made, runs, files, config>>

Mkdir_after_config_check(p) ==
    /\ pc[p] = "mkdir"
    /\ IF config = None
       THEN /\ pc' = [pc EXCEPT ![p] = "failed"]
            /\ local' = [local EXCEPT ![p].raised = "SystemExit"]
            /\ UNCHANGED <<out_root, made>>
       ELSE /\ out_root' = out_root \cup {local[p].name}
            /\ made' = [made EXCEPT ![p] = Append(made[p], local[p].name)]
            /\ pc' = [pc EXCEPT ![p] = "run"]
            /\ UNCHANGED local
    /\ UNCHANGED <<call, job, runs, files, config>>

Mkdir_exist_ok(p) ==
    /\ pc[p] = "mkdir"
    /\ out_root' = out_root \cup {local[p].name}
    /\ made' = [made EXCEPT ![p] = Append(made[p], local[p].name)]
    /\ pc' = [pc EXCEPT ![p] = "run"]
    /\ UNCHANGED <<call, job, local, runs, files, config>>

\* out_path.mkdir() raises FileExistsError when the entry exists, which ends
\* the script.
Mkdir(p) ==
    /\ pc[p] = "mkdir"
    /\ IF local[p].name \in out_root
       THEN /\ pc' = [pc EXCEPT ![p] = "failed"]
            /\ local' = [local EXCEPT ![p].raised = "FileExistsError"]
            /\ UNCHANGED <<out_root, made>>
       ELSE /\ out_root' = out_root \cup {local[p].name}
            /\ made' = [made EXCEPT ![p] = Append(made[p], local[p].name)]
            /\ pc' = [pc EXCEPT ![p] = "run"]
            /\ UNCHANGED local
    /\ UNCHANGED <<call, job, runs, files, config>>

\* The rest of the run, all of it inside the folder made: the enriched config
\* is written and the binary writes log.txt (its output is not modelled, nor
\* are the patches, which depend on the state of the git repository).  When
\* the config does not exist, lazytp.py evaluates  exit -1  (a subtraction,
\* which raises TypeError) and lazyto.py calls sys.exit(-1); either ends the
\* script with the folder made and nothing in it.  batch_ltp goes on with its
\* next bundle.  An error of enrich_config ends lazyto.py in the same way.
Run(p) ==
    LET args     == job[p].ltp_arguments[local[p].k]
        out_path == local[p].name
        written  == IF job[p].script = "lazyto"
                    THEN LazytoFiles(out_path, config)
                    ELSE LazytpFiles(out_path, config, args.subject)
        raised   == IF config = None
                    THEN IF job[p].script = "lazyto" THEN "SystemExit" ELSE "TypeError"
                    ELSE IF job[p].script = "lazyto"
                    THEN enrich_config(config, out_path, None, None).raised
                    ELSE ""
    IN  /\ pc[p] = "run"
        /\ IF raised # ""
           THEN /\ pc' = [pc EXCEPT ![p] = "failed"]
                /\ local' = [local EXCEPT ![p].raised = raised]
                /\ UNCHANGED files
           ELSE /\ files' = files \cup written
                /\ IF local[p].k < Len(job[p].ltp_arguments)
                   THEN /\ local' = [local EXCEPT ![p].k = local[p].k + 1]
                        /\ pc' = [pc EXCEPT ![p] = "name"]
                   ELSE /\ pc' = [pc EXCEPT ![p] = "done"]
                        /\ UNCHANGED local
        /\ UNCHANGED <<call, out_root, job, made, runs, config>>

Init ==
    /\ call = NoCall
    /\ out_root \in InitOutRoots
    /\ pc = [p \in Procs |-> "idle"]
    /\ job = [p \in Procs |-> NoJob]
    /\ local = [p \in Procs |-> NoLocal]
    /\ made = [p \in Procs |-> <<>>]
    /\ runs = 0
    /\ files = {}
    /\ config \in {ConfigContent, None}

Next ==
    \E p \in Procs :
        \/ \E j \in Jobs : Start(p, j)
        \/ ComputeName(p)
        \/ Mkdir(p)
        \/ Run(p)

Spec == Init /\ [][Next]_vars

-----------------------------------------------------------------------------
(* Properties of the naming functions                                      *)

Count(s, Test(_)) == Cardinality({ i \in DOMAIN s : Test(s[i]) })

IsSplitChar(c) == c \in SplitChars

IsPlain(c) == IsAlnum(c) \/ IsSplitChar(c)

AllPlain(s) == \A i \in DOMAIN s : IsPlain(s[i])

\* The id of a number: decimal, left-padded with zeros to ID_LEN digits.
IdOf(n) == [ i \in 1..ID_LEN |-> DigitChars[((n \div Pow10(ID_LEN - i)) % 10) + 1] ]

NumericIds(folder) == { int(parse_test_case_name(n).id) : n \in { e \in folder : is_test_case_name(e) } }

Highest(numbers) == IF numbers = {} THEN 0 ELSE CHOOSE m \in numbers : \A x \in numbers : x <= m

\* C1: get_next_id(directory) is 1 + the numerically highest id among the
\* directory's test-case names, wrapping at 10^ID_LEN to 1 and never 0, and
\* '001' when the directory holds no test-case name.
NextIdIsOnePastHighest ==
    call.op = "get_next_id" =>
        LET n == (Highest(NumericIds(call.folder)) + 1) % Pow10(ID_LEN)
        IN  call.result = IdOf(IF n = 0 THEN 1 ELSE n)

SameComponents(created, parsed) ==
    /\ parsed.raised = ""
    /\ parsed.id = created.id
    /\ parsed.sha1 = created.sha1
    /\ parsed.dataset_name = camel_case(created.project_name)
    /\ created.optional_description # None
         => parsed.optional_description = camel_case(created.optional_description)

PlainInputs(created) ==
    /\ AllPlain(created.project_name)
    /\ created.optional_description # None => AllPlain(created.optional_description)

\* C5 as stated: parsing a created name gives back id, sha1, the camel-cased
\* dataset name and the camel-cased description, for every dataset name and
\* description made of alphanumerics and separators.
RoundTripOfEveryPlainName ==
    (call.op = "parse_created" /\ PlainInputs(call.created))
        => SameComponents(call.created, call.result)

\* C5 amended: the same, for dataset names that hold at least one
\* alphanumeric character.
RoundTripOfNamedDatasets ==
    (/\ call.op = "parse_created"
     /\ PlainInputs(call.created)
     /\ \E i \in DOMAIN call.created.project_name : IsAlnum(call.created.project_name[i]))
        => SameComponents(call.created, call.result)

RoundTripWitness ==
    /\ call.op = "parse_created"
    /\ call.created.project_name = snowy_Hillside
    /\ call.created.optional_description = <<"-">>
    /\ call.result.raised = ""
    /\ call.result.optional_description = <<>>

\* the position just behind the dataset name of a parsed name
AfterDataset(parsed) == Len(parsed.id) + Len(parsed.sha1) + Len(parsed.dataset_name) + 3

\* C6: parse_test_case_name gives optional_description = None for a name with
\* no separator behind the dataset name (every name created without a
\* description) and "" for a name that ends in a bare separator.
AbsentDescriptionIsNone ==
    (call.op \in {"parse_created", "parse_test_case_name"} /\ call.result.raised = "") =>
        LET p == AfterDataset(call.result)
        IN  /\ CharAt(call.name, p) # SEPARATOR => call.result.optional_description = None
            /\ (CharAt(call.name, p) = SEPARATOR /\ Len(call.name) = p)
                 => call.result.optional_description = <<>>

\* C7: create_test_case_name returns id, '_', sha1, '_' and the camel-cased
\* dataset name, followed by '_' and the camel-cased description exactly when
\* a description is given.
CreatedNameIsJoinedComponents ==
    call.op = "create_test_case_name" =>
        call.result =
            call.id \o <<"_">> \o call.sha1 \o <<"_">> \o camel_case(call.project_name)
                \o (IF call.optional_description = None THEN <<>>
                    ELSE <<"_">> \o camel_case(call.optional_description))

CreatedNameWitness ==
    /\ call.op = "create_test_case_name"
    /\ call.id = <<"0","0","1">>
    /\ call.project_name = snowy_Hillside
    /\ call.optional_description = increasedStepSizeTo42
    /\ Len(call.result) = Len(call.sha1) + 40

RECURSIVE FirstUpperFrom(_, _, _, _)
\* The characters of s that are no separators, from position i on: those of
\* the first component as they are, and of a later component (later) the first
\* one (start) upper-cased and the others as they are.
FirstUpperFrom(s, i, later, start) ==
    IF i > Len(s) THEN <<>>
    ELSE IF IsSplitChar(s[i]) THEN FirstUpperFrom(s, i + 1, TRUE, TRUE)
    ELSE <<IF later /\ start THEN ToUpper(s[i]) ELSE s[i]>>
            \o FirstUpperFrom(s, i + 1, later, FALSE)

RECURSIVE TitledFrom(_, _, _)
\* The same, with a later component title-cased: a character is lower-cased
\* behind a letter and upper-cased elsewhere.
TitledFrom(s, i, later) ==
    IF i > Len(s) THEN <<>>
    ELSE IF IsSplitChar(s[i]) THEN TitledFrom(s, i + 1, TRUE)
    ELSE <<IF ~later THEN s[i]
           ELSE IF IsCased(s[i - 1]) THEN ToLower(s[i]) ELSE ToUpper(s[i])>>
            \o TitledFrom(s, i + 1, later)

\* C8 as stated: camel_case(s) is the first component unchanged, then each
\* later component with its first character upper-cased and the others unchanged.
CamelCaseKeepsTheRest ==
    call.op = "camel_case" => call.result = FirstUpperFrom(call.s, 1, FALSE, FALSE)

\* C8 amended: camel_case(s) is the first component unchanged, then each later
\* component title-cased: a letter behind a letter is lower-cased, every
\* other letter upper-cased.
CamelCaseTitlesTheRest ==
    call.op = "camel_case" => call.result = TitledFrom(call.s, 1, FALSE)

CamelCaseTitlesWitness ==
    /\ call.op = "camel_case"
    /\ call.s = x_myWord
    /\ call.result = <<"x","M","y","w","o","r","d">>

\* the components of a created name: what follows id, '_', sha1, '_'
Components(created) ==
    SubSeq(created.result, Len(created.id) + Len(created.sha1) + 3, Len(created.result))

IsJoint(c) == c = SEPARATOR

Joints(created) == IF created.optional_description = None THEN 0 ELSE 1

\* C9 as stated: whatever dataset name and description are given, the
\* components of the created name hold alphanumeric characters only (and the
\* one '_' that joins them).
ComponentsAreAlphanumeric ==
    call.op = "create_test_case_name" =>
        LET c == Components(call)
        IN  /\ Count(c, IsJoint) = Joints(call)
            /\ \A i \in DOMAIN c : IsJoint(c[i]) \/ IsAlnum(c[i])

\* C9 amended: the components hold none of '_', ' ', '.', '-' (but the one
\* '_' that joins them), and alphanumeric characters only when the dataset
\* name and description given hold nothing but alphanumerics and separators.
ComponentsHoldNoSeparator ==
    call.op = "create_test_case_name" =>
        LET c == Components(call)
        IN  /\ Count(c, IsJoint) = Joints(call)
            /\ \A i \in DOMAIN c : IsJoint(c[i]) \/ ~IsSplitChar(c[i])
            /\ PlainInputs(call) => \A i \in DOMAIN c : IsJoint(c[i]) \/ IsAlnum(c[i])

ComponentsWitness ==
    /\ call.op = "create_test_case_name"
    /\ call.project_name = <<".", "!">>
    /\ call.optional_description = <<" ">>
    /\ Components(call) = <<"!", "_">>

LeadsWithSeparator(s) == s = <<>> \/ IsSplitChar(s[1])

\* C10 as stated: camel_case fails with an index error when s is empty or
\* begins with a separator.
CamelCaseFailsWithoutLead ==
    (call.op = "camel_case" /\ LeadsWithSeparator(call.s)) => call.result = IndexError

IsKept(c) == ~IsSplitChar(c)

\* C10 amended: camel_case fails on no input; for an s that is empty or begins
\* with a separator it returns the characters of s that are no separators,
\* '' when there are none.
CamelCaseReturnsWithoutLead ==
    (call.op = "camel_case" /\ LeadsWithSeparator(call.s)) =>
        /\ call.result # IndexError
        /\ Len(call.result) = Count(call.s, IsKept)
        /\ \A i \in DOMAIN call.result : IsKept(call.result[i])

CamelCaseReturnsWitness ==
    /\ call.op = "camel_case"
    /\ call.s = <<"_", "a", "B">>
    /\ call.result = <<"A", "b">>

\* C11: parse_test_case_name fails with NotATestCaseNameError on every name
\* the pattern does not match.
ParseFailsWithNotATestCaseNameError ==
    (call.op = "parse_test_case_name" /\ ~is_test_case_name(call.name))
        => call.result.raised = "NotATestCaseNameError"

\* C12: increment_id(id) is (int(id) + 1) mod 10^ID_LEN with 0 replaced by 1,
\* left-padded with zeros to exactly ID_LEN digits; '999' gives '001' and
\* nothing gives '000'.
IncrementIdWrapsToOne ==
    call.op = "increment_id" =>
        LET n == (int(call.id) + 1) % Pow10(ID_LEN)
        IN  /\ call.result = IdOf(IF n = 0 THEN 1 ELSE n)
            /\ Len(call.result) = ID_LEN
            /\ \A i \in DOMAIN call.result : IsDigit(call.result[i])
            /\ call.result # <<"0","0","0">>
            /\ call.id = <<"9","9","9">> => call.result = <<"0","0","1">>

IncrementIdWitness ==
    /\ call.op = "increment_id"
    /\ call.id = <<"1","9","9","9">>
    /\ call.result = <<"0","0","1">>

\* C13: find_highest_id(directory) is the id of the greatest number among the
\* directory's test-case names, and ID_LEN zeros when it holds none.
HighestIdIsNumericMaximum ==
    call.op = "get_next_id" =>
        IF NumericIds(call.folder) = {} THEN call.highest = Zeros(ID_LEN)
        ELSE int(call.highest) = Highest(NumericIds(call.folder))

SameLazytoComponents(created, parsed) ==
    /\ parsed.raised = ""
    /\ parsed.id = get_next_id(created.out_path)
    /\ parsed.description = created.description
    /\ created.optional_description # None
         => parsed.optional_description = camel_case(created.optional_description)

\* C21 as stated: for every non-empty description and every optional
\* description, parsing the folder name create_lazyto_out_folder_name made
\* gives the id get_next_id(out_path), the description as given and the
\* camel-cased optional description.
LazytoRoundTripOfEveryDescription ==
    (/\ call.op = "parse_lazyto_created"
     /\ ~call.created.reuse_id
     /\ call.created.description # <<>>)
        => SameLazytoComponents(call.created, call.result)

\* C21 amended: the same, for a description of alphanumeric characters only
\* and an optional description of alphanumerics and separators.
LazytoRoundTripOfAlnumDescription ==
    (/\ call.op = "parse_lazyto_created"
     /\ ~call.created.reuse_id
     /\ call.created.description # <<>>
     /\ \A i \in DOMAIN call.created.description : IsAlnum(call.created.description[i])
     /\ call.created.optional_description # None
          => AllPlain(call.created.optional_description))
        => SameLazytoComponents(call.created, call.result)

LazytoRoundTripWitness ==
    /\ call.op = "parse_lazyto_created"
    /\ call.created.out_path = ortho_out_path
    /\ call.created.description = ortho
    /\ call.created.optional_description = this_is_optional
    /\ call.result.raised = ""
    /\ call.result.id = <<"0","0","2">>
    /\ call.result.optional_description = <<"t","h","i","s","I","s","O","p","t","i","o","n","a","l">>

AllOf(s, from, to, Test(_)) == \A i \in from..to : Test(s[i])

\* s begins with digits, '_', alphanumerics, '_' and an alphanumeric
HasTestCasePrefix(s) ==
    \E a, b \in 1..Len(s) :
        /\ a + b + 3 <= Len(s)
        /\ AllOf(s, 1, a, IsDigit)
        /\ s[a + 1] = SEPARATOR
        /\ AllOf(s, a + 2, a + b + 1, IsAlnum)
        /\ s[a + b + 2] = SEPARATOR
        /\ IsAlnum(s[a + b + 3])

\* the part of a parsed name that the components make up
MatchedPart(parsed, name) ==
    LET head == parsed.id \o <<"_">> \o parsed.sha1 \o <<"_">> \o parsed.dataset_name
    IN  IF CharAt(name, Len(head) + 1) = SEPARATOR
        THEN head \o <<"_">> \o parsed.optional_description
        ELSE head \o parsed.optional_description

\* C23: parse_test_case_name succeeds on exactly the strings that begin with
\* a match of the pattern, which are the strings is_test_case_name accepts;
\* the components it returns are those of the matched part, and what follows
\* the match changes nothing.
ParseIgnoresTrailingCharacters ==
    call.op = "parse_test_case_name" =>
        /\ call.result.raised = "" <=> HasTestCasePrefix(call.name)
        /\ call.result.raised = "" <=> is_test_case_name(call.name)
        /\ call.result.raised = "" =>
              LET part == MatchedPart(call.result, call.name)
              IN  /\ Len(part) <= Len(call.name)
                  /\ SubSeq(call.name, 1, Len(part)) = part
                  /\ parse_test_case_name(part) = call.result
                  /\ AllOf(call.result.id, 1, Len(call.result.id), IsDigit)
                  /\ AllOf(call.result.sha1, 1, Len(call.result.sha1), IsAlnum)
                  /\ AllOf(call.result.dataset_name, 1, Len(call.result.dataset_name), IsAlnum)
                  /\ AllOf(call.result.optional_description, 1,
                           Len(call.result.optional_description), IsAlnum)
                  /\ ~IsAlnum(CharAt(call.name, Len(part) + 1))

ParseIgnoresTrailingWitness ==
    /\ call.op = "parse_test_case_name"
    /\ call.name = <<"0","1","5","_","1","f","_","a","B","_","4","!">>
    /\ call.result.raised = ""
    /\ call.result.dataset_name = <<"a","B">>
    /\ call.result.optional_description = <<"4">>

\* C24: find_highest_id and get_next_id called on a directory that does not
\* exist raise the filesystem's directory-not-found error and return no id.
MissingDirectoryRaises ==
    (call.op = "get_next_id" /\ ~call.exists) => call.raised = "FileNotFoundError"

\* C19: for a test-case name, derive_stitched_result_name returns
\* '<id>_<dataset_name>_<optional_description>_stitched.tiff' when the name
\* has a description and '<id>_<dataset_name>_stitched.tiff' when it has
\* none; the revision tag is left out.
StitchedNameOmitsAbsentDescription ==
    (call.op = "derive_stitched_result_name" /\ is_test_case_name(call.name)) =>
        LET m    == test_case_name_regex(call.name)
            tiff == <<"_","s","t","i","t","c","h","e","d",".","t","i","f","f">>
        IN  /\ call.result.raised = ""
            /\ call.result.name =
                 m.group1 \o <<"_">> \o m.group3
                     \o (IF m.group4 = <<>> THEN <<>> ELSE <<"_">> \o m.group4) \o tiff

-----------------------------------------------------------------------------
(* Properties of the output folders                                        *)

NamesFolder(c) == c.op \in {"get_lazytp_test_case_name", "create_lazyto_out_folder_name"}

\* the id component of a folder name: what stands before the first separator
RECURSIVE IdComponent(_)
IdComponent(name) ==
    IF name = <<>> \/ name[1] = SEPARATOR THEN <<>>
    ELSE <<name[1]>> \o IdComponent(Tail(name))

\* C14: no folder name the two functions produce carries the id '000',
\* whatever reuse_id is and whatever the output root holds.
FolderNameNeverAllZero ==
    NamesFolder(call) => IdComponent(call.result) # Zeros(ID_LEN)

\* C15: the id component of every folder name the two functions produce is
\* exactly ID_LEN decimal digits, whatever reuse_id is and whatever ids the
\* output root's test-case entries carry.
FolderNameIdHasIdLenDigits ==
    NamesFolder(call) =>
        LET i == IdComponent(call.result)
        IN  Len(i) = ID_LEN /\ \A k \in DOMAIN i : IsDigit(i[k])

Resting(q) == pc[q] \in {"idle", "done", "failed"}

\* C2: in a sequence of runs without reuse_id, none of them concurrent, the
\* folder name computed for a run differs from every entry the output root
\* holds.
NewNameIsUnused ==
    \A p \in Procs :
        (/\ pc[p] = "mkdir"
         /\ ~reuse_id(p)
         /\ \A q \in Procs \ {p} : Resting(q))
            => local[p].name \notin out_root

\* C3: the folders one batch_ltp run makes all carry the id of the first.
BatchFoldersShareId ==
    \A p \in Procs :
        (/\ job[p].script = "batchltp"
         /\ \A q \in Procs \ {p} : pc[q] = "idle")
            => \A i \in DOMAIN made[p] :
                  parse_test_case_name(made[p][i]).id = parse_test_case_name(made[p][1]).id

\* C4: two invocations that have both listed the output root before either
\* made its folder hold the same id: nothing keeps the second from being
\* given the id of the first.
SameListingSameId ==
    \A p, q \in Procs :
        (/\ p # q
         /\ pc[p] = "mkdir" /\ pc[q] = "mkdir"
         /\ ~reuse_id(p) /\ ~reuse_id(q)
         /\ local[p].listing = local[q].listing)
            => local[p]._id = local[q]._id

SameIdWitness ==
    /\ pc["A"] = "mkdir" /\ pc["B"] = "mkdir"
    /\ ~reuse_id("A") /\ ~reuse_id("B")
    /\ local["A"].listing = out_root /\ local["B"].listing = out_root
    /\ local["A"]._id = local["B"]._id
    /\ local["A"].name # local["B"].name

\* C20: after a lazy_test_pipeline run on an output root that held no config
\* copy, one file named 'config.ini' exists under the output root; it is in
\* the folder the run made and holds the lines of the original config
\* followed by the [metric] input block.
ConfigCopyIsNamedConfigIni ==
    \A p \in Procs :
        (/\ job[p].script = "lazytp"
         /\ pc[p] = "done"
         /\ runs = 1)
            => LET copies == { f \in files : f.name = "config.ini" }
               IN  /\ Cardinality(copies) = 1
                   /\ \A f \in copies :
                         /\ f.folder = made[p][1]
                         /\ Len(f.content) > Len(config)
                         /\ SubSeq(f.content, 1, Len(config)) = config
                         /\ \E i \in DOMAIN f.content :
                               i > Len(config) /\ f.content[i] = Header("metric")

-----------------------------------------------------------------------------
(* Properties of the images folders                                        *)

HasImagesDir(folder) ==
    \E i \in DOMAIN folder.children :
        folder.children[i].is_dir /\ folder.children[i].name = "images"

HoldsImage(entry) ==
    \E i \in DOMAIN entry.children :
        entry.children[i].suffix \in {"tif", "TIF", "tiff", "TIFF", "jpg", "JPG", "jpeg", "JPEG"}

\* the positions of the child directories of folder that hold an image
ImageDirs(folder) ==
    { i \in DOMAIN folder.children : folder.children[i].is_dir /\ HoldsImage(folder.children[i]) }

\* C16: when the project folder has a child directory named 'images',
\* guess_images_subfolder returns it, whether or not it holds an image and
\* whatever other sub-folders with images stand beside it.
ImagesDirIsReturned ==
    (call.op = "guess_images_subfolder" /\ HasImagesDir(call.folder))
        => call.result = [raised |-> "", result |-> <<call.folder.name, "images">>]

ImagesDirWitness ==
    /\ call.op = "guess_images_subfolder"
    /\ Len(call.folder.children) = 3
    /\ call.folder.children[1] = Dir("the_input", DummyImages)
    /\ call.folder.children[2] = Dir("no_input", DummyImages)
    /\ call.folder.children[3] = Dir("images", <<>>)
    /\ call.result.raised = ""
    /\ call.result.result = <<"snowy_hillside", "images">>

Resolved(root) ==
    { i \in DOMAIN root.children :
        root.children[i].is_dir
          /\ (HasImagesDir(root.children[i]) \/ Cardinality(ImageDirs(root.children[i])) = 1) }

Unresolved(root) ==
    { i \in DOMAIN root.children : root.children[i].is_dir /\ i \notin Resolved(root) }

\* C18: the batch scan returns a record with the lists images_paths and
\* faulty_qa_projects; every child directory of the root gives one element,
\* its images folder in images_paths or itself in faulty_qa_projects, and a
\* child that is no directory gives none.
GatherReturnsFaultyQaProjects ==
    call.op = "gather_input_paths_from_qa_projects_root" =>
        /\ DOMAIN call.result = {"images_paths", "faulty_qa_projects"}
        /\ Len(call.result.images_paths) = Cardinality(Resolved(call.projects_root))
        /\ Len(call.result.faulty_qa_projects) = Cardinality(Unresolved(call.projects_root))
        /\ Range(call.result.faulty_qa_projects)
             = { call.projects_root.children[i].name : i \in Unresolved(call.projects_root) }

\* the listings of the same entries in every order
Reorderings(children) ==
    { [ i \in DOMAIN children |-> children[f[i]] ] :
        f \in { g \in [DOMAIN children -> DOMAIN children] : IsInjective(g) } }

\* the folder returned, or the kind of error raised
Outcome(result) == IF result.raised = "" THEN <<"returned">> \o result.result ELSE <<result.raised>>

\* C22: guess_images_subfolder returns the same folder, or raises the same
\* kind of error, in whatever order the children of the project folder are
\* listed.
GuessIgnoresListingOrder ==
    call.op = "guess_images_subfolder" =>
        \A l \in Reorderings(call.folder.children) :
            Outcome(guess_images_subfolder([call.folder EXCEPT !.children = l]))
                = Outcome(call.result)

GuessIgnoresListingOrderWitness ==
    /\ call.op = "guess_images_subfolder"
    /\ Len(call.folder.children) = 3
    /\ call.folder.children[1] = Dir("no_input", DummyImages)
    /\ call.folder.children[2] = File("the_input", "")
    /\ call.folder.children[3] = Dir("images", DummyImages)
    /\ call.result.raised = ""
    /\ call.result.result = <<"snowy_hillside", "images">>

(***************************************************************************)
(* Properties of the enriched config                                       *)
(***************************************************************************)

\* the section the i-th line of a config is in, "" before the first header
SectionAt(lines, i) ==
    LET headers == { h \in 1..i : lines[h].kind = "section" }
    IN  IF headers = {} THEN ""
        ELSE lines[CHOOSE h \in headers : \A g \in headers : g <= h].key

\* the (section, key) pairs a config gives a value to
KeysOf(lines) ==
    { <<SectionAt(lines, i), lines[i].key>> : i \in { j \in DOMAIN lines : lines[j].kind = "item" } }

SectionsOf(lines) == { lines[i].key : i \in { j \in DOMAIN lines : lines[j].kind = "section" } }

\* the values a config gives to a key of a section
ValuesOf(lines, section, key) ==
    { lines[i].value : i \in { j \in DOMAIN lines :
          lines[j].kind = "item" /\ lines[j].key = key /\ SectionAt(lines, j) = section } }

\* the keys enrich_config is to set, given its optional paths
Injected(debug_output_path, test_pipeline_project_path) ==
    { <<"output", "filename">> }
        \cup (IF debug_output_path # None
              THEN { <<"color_balance", "debug_tiles_path">> } ELSE {})
        \cup (IF test_pipeline_project_path # None
              THEN { <<"images", "opfProject">>, <<"dsm", "input_file">> } ELSE {})

\* the injected keys have the values of the paths given
InjectedKeysAreSet(c) ==
    LET out == c.result.content
    IN  /\ ValuesOf(out, "output", "filename")
               = { c.out_path \o <<"/">> \o c.out_path \o <<".tif">> }
        /\ c.debug_output_path # None
               => ValuesOf(out, "color_balance", "debug_tiles_path") = { c.debug_output_path }
        /\ c.test_pipeline_project_path # None
               => /\ ValuesOf(out, "images", "opfProject")
                         = { c.test_pipeline_project_path \o <<"/opf/project.json">> }
                  /\ ValuesOf(out, "dsm", "input_file")
                         = { c.test_pipeline_project_path \o <<"/dsm.tiff">> }

\* every section of the input is in the result, and every key that is not
\* injected has in the result the value it has in the input, or none in both
OtherKeysAreKept(c) ==
    LET out == c.result.content
    IN  /\ SectionsOf(c.config) \subseteq SectionsOf(out)
        /\ \A sk \in (KeysOf(c.config) \cup KeysOf(out))
                        \ Injected(c.debug_output_path, c.test_pipeline_project_path) :
               ValuesOf(out, sk[1], sk[2]) = ValuesOf(c.config, sk[1], sk[2])

\* C25: enrich_config of a config that parses returns a config in which the
\* injected keys ([output] filename; [color_balance] debug_tiles_path when a
\* debug path is given; [images] opfProject and [dsm] input_file when a
\* test-pipeline project path is given) have the values of the paths, and
\* every other section and key is as in the input.
EnrichChangesOnlyInjectedKeys ==
    (call.op = "enrich_config" /\ parse_config(call.config).raised = "")
        => /\ call.result.raised = ""
           /\ InjectedKeysAreSet(call)
           /\ OtherKeysAreKept(call)

(***************************************************************************)
(* Properties of the runs                                                  *)
(***************************************************************************)

\* a terminal with a batch_ltp of at least one bundle
InBatch(p) == job[p].script = "batchltp" /\ job[p].ltp_arguments # <<>>

\* the folder is the one lazy_test_pipeline names for the bundle, with some id
IsFolderOf(name, bundle) ==
    \E j \in 1..Len(name) :
        name = create_test_case_name(SubSeq(name, 1, j), bundle.sha1,
                   camel_case(bundle.subject), bundle.optional_description)

\* the invocation that made the folder has returned: its log is written
HasReturned(name) == OutFile(name, "log.txt", <<>>) \in files

\* C26 as stated: a batch_ltp of n >= 1 bundles that has ended has invoked
\* lazy_test_pipeline on every one of the n bundles.
BatchInvokesEveryBundle ==
    \A p \in Procs :
        (InBatch(p) /\ pc[p] \in {"done", "failed"})
            => local[p].k = Len(job[p].ltp_arguments)

\* C26: batch_ltp invokes lazy_test_pipeline on the bundles in list order,
\* the first with reuse_id false and every later one with reuse_id true,
\* invocation k+1 only after invocation k has returned; it ends after the
\* n-th invocation, or with the first invocation that raises.
BatchInvokesInOrderUntilOneRaises ==
    \A p \in Procs :
        InBatch(p) =>
            LET n == Len(job[p].ltp_arguments)
                k == local[p].k
            IN  /\ k \in 1..n
                /\ Len(made[p]) \in IF pc[p] \in {"name", "mkdir"} THEN {k - 1}
                                    ELSE IF pc[p] \in {"run", "done"} THEN {k}
                                    ELSE {k - 1, k}
                /\ \A i \in DOMAIN made[p] : IsFolderOf(made[p][i], job[p].ltp_arguments[i])
                /\ \A i \in 1..(k - 1) : HasReturned(made[p][i])
                /\ pc[p] = "mkdir"
                       => local[p]._id = IF k = 1 THEN get_next_id(local[p].listing)
                                         ELSE find_highest_id(local[p].listing)
                /\ pc[p] = "done" => k = n /\ HasReturned(made[p][n])
                /\ pc[p] = "failed" => local[p].raised # ""

\* a batch of two bundles has ended with both folders made, in list order
BatchOfTwoWitness ==
    \E p \in Procs :
        /\ InBatch(p)
        /\ pc[p] = "done"
        /\ Len(job[p].ltp_arguments) = 2
        /\ Len(made[p]) = 2
        /\ made[p][1] # made[p][2]
        /\ HasReturned(made[p][1]) /\ HasReturned(made[p][2])

\* the listing holds a test-case entry with the id
HoldsId(listing, _id) ==
    \E e \in listing : is_test_case_name(e) /\ parse_test_case_name(e).id = _id

FolderCreationIsExclusive ==
    /\ \A p, q \in Procs :
           (p # q /\ pc[p] = "run" /\ pc[q] = "run") => local[p].name # local[q].name
    /\ \A p \in Procs :
           pc[p] = "run" => /\ local[p].name \in out_root
                            /\ \A f \in files : f.folder # local[p].name
    /\ \A p \in Procs :
           (pc[p] = "failed" /\ local[p].raised = "FileExistsError")
               => /\ local[p].name \in out_root
                  /\ \A i \in DOMAIN made[p] : made[p][i] # local[p].name

\* two invocations computed the same folder name; one made the folder and
\* is at work in it, the other has failed at mkdir
SecondMkdirFailsWitness ==
    \E p, q \in Procs :
        /\ p # q
        /\ pc[p] = "failed" /\ local[p].raised = "FileExistsError"
        /\ pc[q] = "run"
        /\ local[q].name = local[p].name
        /\ \A f \in files : f.folder # local[p].name

\* the run of terminal p has ended because the config file does not exist
EndedForMissingConfig(p) ==
    /\ config = None
    /\ pc[p] = "failed"
    /\ local[p].raised \in {"TypeError", "SystemExit"}

\* the folder the ended run made is in the output root, and nothing is in it:
\* no config copy and no log of the binary
EmptyFolderRemains(p) ==
    /\ local[p].name \in out_root
    /\ HoldsId(out_root, local[p]._id)
    /\ \A f \in files : f.folder # local[p].name

EmptyBatchFinishesNormally ==
    \A p \in Procs :
        (job[p].script = "batchltp" /\ job[p].ltp_arguments = <<>>)
            => /\ pc[p] = "done"
               /\ local[p].raised = ""
               /\ made[p] = <<>>

====
